---------------------------- MODULE Spec2Model ----------------------------
(***************************************************************************)
(* gerbil-ini: the line-oriented ini parser Ini::parse / Ini::parse_simple *)
(* (src/gerbil-ini/src/ini.rs), its document model and its error type.     *)
(*                                                                         *)
(* A text is a sequence of one-character strings.  Option<T> is a sequence *)
(* of length 0 (None) or 1 (Some(x)).  A BTreeMap is a function whose      *)
(* domain is the set of its keys.  Indices returned by find are 0-based,   *)
(* as in Rust; SubSeq is 1-based.                                          *)
(***************************************************************************)
EXTENDS Integers, Sequences, FiniteSets, TLC

VARIABLES
    string,     \* parse's argument `string`, the whole input text
    config,     \* parse's argument `config`, the IniMode
    pos,        \* the `lines` iterator: 1-based offset of the next unread char
    count,      \* the `enumerate` adapter's counter: index of the next line
    ini,        \* the local `ini`, the document being built
    section,    \* the local `section`: Option<String>
    result      \* what parse has returned: Pending, Ok(ini), Err(e) or Panic

vars == <<string, config, pos, count, ini, section, result>>

(***************************************************************************)
(* Option, Result                                                          *)
(***************************************************************************)
None == <<>>
Some(x) == <<x>>

Pending == [tag |-> "Pending"]
Ok(v) == [tag |-> "Ok", val |-> v]
Err(e) == [tag |-> "Err", val |-> e]
Panic == [tag |-> "Panic"]

(***************************************************************************)
(* IniMode, IniParsingError, Ini, IniSection                               *)
(***************************************************************************)
IniMode == {"Simple", "SimpleTrimmed"}

MissingEquals(line_number) ==
    [kind |-> "MissingEquals", line_number |-> line_number]
ExpectedSectionTitle(line_number) ==
    [kind |-> "ExpectedSectionTitle", line_number |-> line_number]
BrokenSectionTitle(line_number) ==
    [kind |-> "BrokenSectionTitle", line_number |-> line_number]
DuplicateSection(line_number, title) ==
    [kind |-> "DuplicateSection", line_number |-> line_number, section |-> title]
DuplicateSectionKey(line_number, title, key) ==
    [kind |-> "DuplicateSectionKey", line_number |-> line_number,
     section |-> title, key |-> key]

IniDefault == [sections |-> <<>>]
IniSectionDefault == [values |-> <<>>]

(***************************************************************************)
(* BTreeMap                                                                *)
(***************************************************************************)
\* a map that never reports a key as present
contains_key_never(m, k) == FALSE

contains_key(m, k) == k \in DOMAIN m

insert(m, k, v) == [x \in DOMAIN m \cup {k} |-> IF x = k THEN v ELSE m[x]]

map_get(m, k) == IF k \in DOMAIN m THEN Some(m[k]) ELSE None

(***************************************************************************)
(* str                                                                     *)
(***************************************************************************)
COMMENT_CHARS == {";", "#"}

\* char::is_whitespace, on the characters the inputs are built from
is_whitespace(c) == c \in {" ", "\t", "\n", "\r"}

starts_with(s, c) == Len(s) > 0 /\ s[1] = c

\* the 0-based index of the last occurrence (rfind)
find_last(s, c) ==
    LET hits == {i \in 1..Len(s) : s[i] = c}
    IN  IF hits = {} THEN None
        ELSE Some((CHOOSE i \in hits : \A j \in hits : j <= i) - 1)

\* str::find(char): the 0-based index of the first occurrence
find(s, c) ==
    LET hits == {i \in 1..Len(s) : s[i] = c}
    IN  IF hits = {} THEN None
        ELSE Some((CHOOSE i \in hits : \A j \in hits : i <= j) - 1)

\* str::split_at(mid), mid a 0-based index
split_at(s, mid) == <<SubSeq(s, 1, mid), SubSeq(s, mid + 1, Len(s))>>

trim_end(s) ==
    LET keep == {i \in 1..Len(s) : ~is_whitespace(s[i])}
    IN  IF keep = {} THEN <<>>
        ELSE SubSeq(s, 1, CHOOSE i \in keep : \A j \in keep : j <= i)

trim_start(s) ==
    LET keep == {i \in 1..Len(s) : ~is_whitespace(s[i])}
    IN  IF keep = {} THEN <<>>
        ELSE SubSeq(s, CHOOSE i \in keep : \A j \in keep : i <= j, Len(s))

\* str::lines(): Lines::next from offset p.  A line ends at the next "\n",
\* which is consumed; one "\r" before that "\n" is dropped; the last line
\* needs no "\n".
lines_next(s, p) ==
    IF p > Len(s) THEN None
    ELSE LET nl == {i \in p..Len(s) : s[i] = "\n"}
         IN  IF nl = {} THEN Some([line |-> SubSeq(s, p, Len(s)), next |-> Len(s) + 1])
             ELSE LET e == CHOOSE i \in nl : \A j \in nl : i <= j
                      cr == e > p /\ s[e - 1] = "\r"
                  IN  Some([line |-> SubSeq(s, p, IF cr THEN e - 2 ELSE e - 1),
                            next |-> e + 1])

(***************************************************************************)
(* Ini::parse_simple: one pass of the `while let` body                     *)
(***************************************************************************)
Continue(i, s) == [ini |-> i, section |-> s, ret |-> None]
Return(i, s, r) == [ini |-> i, section |-> s, ret |-> Some(r)]

\* a skip test that looks for the comment delimiter after leading whitespace
skip_line_lenient(line) ==
    \/ (Len(trim_start(line)) > 0 /\ trim_start(line)[1] \in COMMENT_CHARS)
    \/ Len(line) = 0
    \/ \A i \in 1..Len(line) : is_whitespace(line[i])

\* the skip test of the loop
skip_line(line) ==
    \/ (Len(line) > 0 /\ line[1] \in COMMENT_CHARS)
    \/ Len(line) = 0
    \/ \A i \in 1..Len(line) : is_whitespace(line[i])

\* a title with its surrounding whitespace removed
section_title_trimmed(line, end) == trim_end(trim_start(SubSeq(line, 2, end)))

\* line[1..end]
section_title(line, end) == SubSeq(line, 2, end)

\* the current section set, the section not inserted
new_section_unregistered(i, title) == Continue(i, Some(title))

\* section = Some(title.clone()); ini.sections.insert(title, Default::default())
new_section(i, title) ==
    Continue([sections |-> insert(i.sections, title, IniSectionDefault)], Some(title))

\* the `[` branch
section_line(i, s, line_number, line) ==
    LET end == find(line, "]")
    IN  IF end = None
        THEN Return(i, s, Err(BrokenSectionTitle(line_number)))
        ELSE LET title == section_title(line, end[1])
             IN  IF contains_key(i.sections, title)
                 THEN Return(i, s, Err(DuplicateSection(line_number, title)))
                 ELSE new_section(i, title)

\* a key trimmed at both ends in SimpleTrimmed
trim_key_both(key_str, cfg) ==
    IF cfg = "Simple" THEN key_str ELSE trim_end(trim_start(key_str))

\* the match on config
trim_key(key_str, cfg) ==
    IF cfg = "Simple" THEN key_str ELSE trim_end(key_str)

trim_value(value_str, cfg) ==
    IF cfg = "Simple" THEN value_str ELSE trim_start(value_str)

\* an insertion that replaces the section's values by the new pair alone
insert_key_fresh(i, s, line_number, key, value) ==
    LET got == map_get(i.sections, s[1])
    IN  IF got = None THEN Return(i, s, Panic)
        ELSE IF contains_key(got[1].values, key)
        THEN Return(i, s, Err(DuplicateSectionKey(line_number, s[1], key)))
        ELSE Continue([sections |-> insert(i.sections, s[1],
                           [values |-> insert(<<>>, key, value)])], s)

\* get_mut(section).unwrap(), the duplicate test and the insertion
insert_key(i, s, line_number, key, value) ==
    LET got == map_get(i.sections, s[1])
    IN  IF got = None THEN Return(i, s, Panic)
        ELSE IF contains_key(got[1].values, key)
        THEN Return(i, s, Err(DuplicateSectionKey(line_number, s[1], key)))
        ELSE Continue([sections |-> insert(i.sections, s[1],
                           [values |-> insert(got[1].values, key, value)])], s)

\* a line without `=` is dropped and the parse goes on
missing_equals_skipped(i, s, line_number) == Continue(i, s)

\* `return Err(MissingEquals)` of the ok_or(..)?
missing_equals(i, s, line_number) ==
    Return(i, s, Err(MissingEquals(line_number)))

\* a key/value branch that looks for `=` before it looks at the section
key_value_line_eq_first(i, s, line_number, line, cfg) ==
    LET l == find(line, "=")
    IN  IF l = None
        THEN missing_equals(i, s, line_number)
        ELSE IF s = None
        THEN Return(i, s, Err(ExpectedSectionTitle(line_number)))
        ELSE LET sp == split_at(line, l[1])
                 key_str == sp[1]
                 value_eq == sp[2]
                 value_str == SubSeq(value_eq, 2, Len(value_eq))
             IN  insert_key(i, s, line_number,
                            trim_key(key_str, cfg), trim_value(value_str, cfg))

\* the key/value branch
key_value_line(i, s, line_number, line, cfg) ==
    IF s = None
    THEN Return(i, s, Err(ExpectedSectionTitle(line_number)))
    ELSE LET l == find(line, "=")
         IN  IF l = None
             THEN missing_equals(i, s, line_number)
             ELSE LET sp == split_at(line, l[1])
                      key_str == sp[1]
                      value_eq == sp[2]
                      value_str == SubSeq(value_eq, 2, Len(value_eq))
                  IN  insert_key(i, s, line_number,
                                 trim_key(key_str, cfg), trim_value(value_str, cfg))

\* which branch of the loop body a line takes
line_kind(line) ==
    IF skip_line(line) THEN "skip"
    ELSE IF starts_with(line, "[") THEN "section"
    ELSE "key_value"

loop_body(i, s, line_number, line, cfg) ==
    CASE line_kind(line) = "skip" -> Continue(i, s)
      [] line_kind(line) = "section" -> section_line(i, s, line_number, line)
      [] line_kind(line) = "key_value" -> key_value_line(i, s, line_number, line, cfg)

\* enumerate(): the index paired with the n-th item (n counted from 0)
enumerate(n) == n

\* parse_simple from the loop state (p, n, i, s) to its return value
RECURSIVE parse_from(_, _, _, _, _, _)
parse_from(str, cfg, p, n, i, s) ==
    LET nx == lines_next(str, p)
    IN  IF nx = None THEN Ok(i)
        ELSE LET b == loop_body(i, s, enumerate(n), nx[1].line, cfg)
             IN  IF b.ret # None THEN b.ret[1]
                 ELSE parse_from(str, cfg, nx[1].next, n + 1, b.ini, b.section)

parse_simple(str, cfg) == parse_from(str, cfg, 1, 0, IniDefault, None)

\* Ini::parse
parse(str, cfg) == parse_simple(str, cfg)

\* Ini::get_section, IniSection::get
get_section(i, name) == map_get(i.sections, name)
get(sec, key) == map_get(sec.values, key)

(***************************************************************************)
(* impl Display for IniParsingError                                        *)
(***************************************************************************)
Digit(d) == CASE d = 0 -> "0" [] d = 1 -> "1" [] d = 2 -> "2" [] d = 3 -> "3"
              [] d = 4 -> "4" [] d = 5 -> "5" [] d = 6 -> "6" [] d = 7 -> "7"
              [] d = 8 -> "8" [] d = 9 -> "9"

\* {line_number}: usize rendered in decimal
RECURSIVE Decimal(_)
Decimal(n) == IF n < 10 THEN <<Digit(n)>> ELSE Decimal(n \div 10) \o <<Digit(n % 10)>>

\* the text after "{line_number}: "; the grave accents around an interpolated
\* name are written ' here
Message(e) ==
    CASE e.kind = "MissingEquals" -> <<"Missing an '=' to separate the key and value">>
      [] e.kind = "ExpectedSectionTitle" -> <<"Expected a section title">>
      [] e.kind = "BrokenSectionTitle" -> <<"Expected a ']' to close a '['">>
      [] e.kind = "DuplicateSection" -> <<"Duplicate section '">> \o e.section \o <<"'">>
      [] e.kind = "DuplicateSectionKey" ->
            <<"Duplicate key '">> \o e.key \o <<"' in section '">> \o e.section \o <<"'">>

Display(e) == Decimal(e.line_number) \o <<":", " ">> \o Message(e)

(***************************************************************************)
(* Inputs                                                                  *)
(***************************************************************************)
MaxLines == 4

LineSet == {
    <<>>,                                           \* empty
    <<" ", "\t">>,                                  \* whitespace only
    <<";", "k", "=", "v">>,                         \* ;k=v
    <<"#">>,                                        \* #
    <<"k">>,                                        \* k
    <<"[", "a", "]">>,                              \* [a]
    <<"[", "]">>,                                   \* []
    <<"[", " ", "b", "]", "=", "]">>,               \* [ b]=]
    <<"[", "a", "=", "b">>,                         \* [a=b
    <<"k", "=", "v">>,                              \* k=v
    <<"k", " ", "=", " ", "w">>,                    \* k = w
    <<" ", ";", "j", "=", "v", "=", "w", " ">>      \* " ;j=v=w "
}

\* how the lines of a text end: "\n" with the last line unterminated, or
\* "\r\n" after every line
LineEndings == {[eol |-> <<"\n">>, last |-> FALSE], [eol |-> <<"\r", "\n">>, last |-> TRUE]}

RECURSIVE Join(_, _, _)
Join(ls, eol, last) ==
    IF ls = <<>> THEN <<>>
    ELSE IF Len(ls) = 1 THEN ls[1] \o (IF last THEN eol ELSE <<>>)
    ELSE ls[1] \o eol \o Join(Tail(ls), eol, last)

(***************************************************************************)
(* The state machine: parse(string, config), one line per step             *)
(***************************************************************************)
Init ==
    /\ \E n \in 0..MaxLines, e \in LineEndings :
          \E ls \in [1..n -> LineSet] : string = Join(ls, e.eol, e.last)
    /\ config \in IniMode
    /\ pos = 1
    /\ count = 0
    /\ ini = IniDefault
    /\ section = None
    /\ result = Pending

Running == result = Pending

cur == lines_next(string, pos)

line_number == enumerate(count)

\* one pass of the loop body, on a next line that takes branch `kind`
Iterate(kind) ==
    /\ Running
    /\ LET c == cur
       IN  /\ c # None
           /\ line_kind(c[1].line) = kind
           /\ LET b == loop_body(ini, section, line_number, c[1].line, config)
              IN  /\ ini' = b.ini
                  /\ section' = b.section
                  /\ result' = IF b.ret = None THEN Pending ELSE b.ret[1]
           /\ pos' = c[1].next
    /\ count' = count + 1
    /\ UNCHANGED <<string, config>>

\* a blank or comment line: continue
SkipLine == Iterate("skip")

\* a line starting with `[`
SectionLine == Iterate("section")

\* any other line
KeyValueLine == Iterate("key_value")

\* the iterator is exhausted: Ok(ini)
ReturnOk ==
    /\ Running
    /\ cur = None
    /\ result' = Ok(ini)
    /\ UNCHANGED <<string, config, pos, count, ini, section>>

Next ==
    \/ SkipLine
    \/ SectionLine
    \/ KeyValueLine
    \/ ReturnOk

Spec == Init /\ [][Next]_vars

(***************************************************************************)
(* The input as the claims read it: the lines of the text, and the grammar *)
(* of a line, stated without the parser's operators.                       *)
(***************************************************************************)
Range(f) == {f[x] : x \in DOMAIN f}

WhiteSpace == {" ", "\t", "\n", "\r"}

StripCr(l) == IF Len(l) > 0 /\ l[Len(l)] = "\r" THEN SubSeq(l, 1, Len(l) - 1) ELSE l

\* the lines of a text: pieces ended by "\n" (or "\r\n"), the last one
\* possibly unterminated
RECURSIVE SplitLines(_)
SplitLines(t) ==
    IF t = <<>> THEN <<>>
    ELSE IF "\n" \notin Range(t) THEN <<t>>
    ELSE LET e == CHOOSE i \in 1..Len(t) : t[i] = "\n" /\ \A j \in 1..(i - 1) : t[j] # "\n"
         IN  <<StripCr(SubSeq(t, 1, e - 1))>> \o SplitLines(SubSeq(t, e + 1, Len(t)))

TextLines == SplitLines(string)

\* how many lines of the text the parser has taken so far; the last line
\* taken is TextLines[Consumed], the Consumed-th line of the text
LinesUpTo(t, p) == Len(SplitLines(SubSeq(t, 1, p - 1)))
Consumed == LinesUpTo(string, pos)

Blank(l) == \A i \in 1..Len(l) : l[i] \in WhiteSpace
Comment(l) == Len(l) > 0 /\ l[1] \in {";", "#"}
Skipped(l) == Blank(l) \/ Comment(l)
Header(l) == Len(l) > 0 /\ l[1] = "["
KeyValue(l) == ~Skipped(l) /\ ~Header(l)
Closed(l) == "]" \in Range(l)
HasEq(l) == "=" \in Range(l)

First(l, c) == CHOOSE i \in 1..Len(l) : l[i] = c /\ \A j \in 1..(i - 1) : l[j] # c

\* the text between `[` and the first `]`
NameOf(l) == SubSeq(l, 2, First(l, "]") - 1)

\* the text before and after the first `=`
RawKey(l) == SubSeq(l, 1, First(l, "=") - 1)
RawValue(l) == SubSeq(l, First(l, "=") + 1, Len(l))

\* t without its trailing (leading) whitespace
NoTrailing(t) ==
    SubSeq(t, 1, CHOOSE n \in 0..Len(t) :
                    /\ n = 0 \/ t[n] \notin WhiteSpace
                    /\ \A j \in (n + 1)..Len(t) : t[j] \in WhiteSpace)
NoLeading(t) ==
    SubSeq(t, CHOOSE n \in 1..(Len(t) + 1) :
                    /\ n = Len(t) + 1 \/ t[n] \notin WhiteSpace
                    /\ \A j \in 1..(n - 1) : t[j] \in WhiteSpace,
           Len(t))

KeyOf(l, m) == IF m = "SimpleTrimmed" THEN NoTrailing(RawKey(l)) ELSE RawKey(l)
ValueOf(l, m) == IF m = "SimpleTrimmed" THEN NoLeading(RawValue(l)) ELSE RawValue(l)

\* the header lines before line i of L, and the last of them (0: none)
HeadersBefore(L, i) == {h \in 1..(i - 1) : Header(L[h])}
LastHeader(L, i) ==
    IF HeadersBefore(L, i) = {} THEN 0
    ELSE CHOOSE h \in HeadersBefore(L, i) : \A g \in HeadersBefore(L, i) : g <= h

\* the key/value lines of the section opened by header line h
LinesOf(L, h) == {j \in (h + 1)..Len(L) : KeyValue(L[j]) /\ LastHeader(L, j) = h}

\* line i repeats the name of an earlier header
RepeatsSection(L, i) ==
    /\ Header(L[i]) /\ Closed(L[i])
    /\ \E h \in HeadersBefore(L, i) : Closed(L[h]) /\ NameOf(L[h]) = NameOf(L[i])

\* line i repeats a key of an earlier line of its section
RepeatsKey(L, i, m) ==
    /\ KeyValue(L[i]) /\ HasEq(L[i]) /\ LastHeader(L, i) # 0
    /\ \E j \in (LastHeader(L, i) + 1)..(i - 1) :
          KeyValue(L[j]) /\ HasEq(L[j]) /\ KeyOf(L[j], m) = KeyOf(L[i], m)

\* line i breaks a rule, given the lines before it
Bad(L, i, m) ==
    \/ Header(L[i]) /\ ~Closed(L[i])
    \/ RepeatsSection(L, i)
    \/ KeyValue(L[i]) /\ LastHeader(L, i) = 0
    \/ KeyValue(L[i]) /\ ~HasEq(L[i])
    \/ RepeatsKey(L, i, m)

\* the error of a bad line i; n is the number the parser gives line i
ErrorOf(L, i, m, n) ==
    IF Header(L[i])
    THEN IF ~Closed(L[i]) THEN BrokenSectionTitle(n)
         ELSE DuplicateSection(n, NameOf(L[i]))
    ELSE IF LastHeader(L, i) = 0 THEN ExpectedSectionTitle(n)
    ELSE IF ~HasEq(L[i]) THEN MissingEquals(n)
    ELSE DuplicateSectionKey(n, NameOf(L[LastHeader(L, i)]), KeyOf(L[i], m))

ErrorKinds == {"MissingEquals", "ExpectedSectionTitle", "BrokenSectionTitle",
               "DuplicateSection", "DuplicateSectionKey"}

\* a map as its set of <<key, value>> pairs
Pairs(m) == {<<k, m[k]>> : k \in DOMAIN m}

\* names and keys to look up: those the input lines can produce, and one more
Probes ==
    {NameOf(l) : l \in {x \in LineSet : Header(x) /\ Closed(x)}}
    \cup {KeyOf(l, m) : <<l, m>> \in {x \in LineSet : KeyValue(x) /\ HasEq(x)} \X IniMode}
    \cup {<<"z">>}

(***************************************************************************)
(* C1: when parse succeeds, the document has exactly one section per       *)
(* header line, named by it, holding exactly the pairs of the key/value    *)
(* lines between that header and the next; get_section and get find       *)
(* exactly those sections and values and nothing else.                     *)
(***************************************************************************)
C1_DocumentMatchesText ==
    result.tag = "Ok" =>
        LET L == TextLines
            doc == result.val
            H == {h \in 1..Len(L) : Header(L[h])}
        IN  /\ \A h \in H : Closed(L[h])
            /\ DOMAIN doc.sections = {NameOf(L[h]) : h \in H}
            /\ Cardinality(DOMAIN doc.sections) = Cardinality(H)
            /\ \A h \in H :
                  LET sec == doc.sections[NameOf(L[h])]
                  IN  /\ \A j \in LinesOf(L, h) : HasEq(L[j])
                      /\ Pairs(sec.values) =
                            {<<KeyOf(L[j], config), ValueOf(L[j], config)>> : j \in LinesOf(L, h)}
                      /\ Cardinality(DOMAIN sec.values) = Cardinality(LinesOf(L, h))
            /\ \A name \in Probes :
                  /\ get_section(doc, name) # None <=> \E h \in H : NameOf(L[h]) = name
                  /\ \A h \in H : NameOf(L[h]) = name =>
                        /\ get_section(doc, name) = Some(doc.sections[name])
                        /\ \A key \in Probes :
                              get(get_section(doc, name)[1], key) =
                                 IF \E j \in LinesOf(L, h) : KeyOf(L[j], config) = key
                                 THEN Some(ValueOf(L[CHOOSE j \in LinesOf(L, h) :
                                                        KeyOf(L[j], config) = key], config))
                                 ELSE None

\* two sections, the first with two keys
C1_Witness ==
    /\ result.tag = "Ok"
    /\ Cardinality(DOMAIN result.val.sections) = 2
    /\ \E n \in DOMAIN result.val.sections :
          Cardinality(DOMAIN result.val.sections[n].values) = 2

(***************************************************************************)
(* C2: the line_number of an error, also as Display renders it at the      *)
(* start of the message, is the 1-based position of the offending line in  *)
(* the text.                                                               *)
(***************************************************************************)
C2_LineNumberIsOneBased ==
    result.tag = "Err" =>
        /\ result.val.line_number = Consumed
        /\ SubSeq(Display(result.val), 1, Len(Decimal(Consumed)) + 1)
              = Decimal(Consumed) \o <<":">>

(***************************************************************************)
(* C3: parse fails exactly when some line breaks a rule given the lines    *)
(* before it; the error is the one of the first such line, the parser      *)
(* stops there, the text after that line does not change the result, the   *)
(* failure carries no document, and its kind is one of the five.           *)
(***************************************************************************)
C3_FirstBadLineDecides ==
    result # Pending =>
        LET L == TextLines
            B == {i \in 1..Len(L) : Bad(L, i, config)}
        IN  /\ result.tag \in {"Ok", "Err"}
            /\ result.tag = "Err" <=> B # {}
            /\ result.tag = "Err" =>
                  LET f == CHOOSE i \in B : \A j \in B : i <= j
                  IN  /\ Consumed = f
                      /\ result.val = ErrorOf(L, f, config, result.val.line_number)
                      /\ result.val.kind \in ErrorKinds
                      /\ "sections" \notin DOMAIN result.val
                      /\ parse(SubSeq(string, 1, pos - 1), config) = result
            /\ result.tag = "Ok" => Consumed = Len(L)

\* an error on a line that has lines after it
C3_Witness ==
    /\ result.tag = "Err"
    /\ result.val.kind = "DuplicateSectionKey"
    /\ Consumed < Len(TextLines)

(***************************************************************************)
(* C4: a repeated name is an error at its second occurrence, never an      *)
(* overwrite or a merge.  A header naming any earlier header fails with    *)
(* DuplicateSection, its line number and the name; a key/value line whose  *)
(* key (trimmed in SimpleTrimmed) is already in the current section fails  *)
(* with DuplicateSectionKey, its line number, the section and the key; a   *)
(* key used in another section only is accepted.  The number of a line is  *)
(* the one the parser gives it: the count of the lines before it.          *)
(***************************************************************************)
C4_RepeatedNameIsError ==
    LET L == TextLines
        c == Consumed
    IN  \A i \in 1..c :
           /\ RepeatsSection(L, i) =>
                 /\ i = c
                 /\ result = Err(DuplicateSection(i - 1, NameOf(L[i])))
           /\ RepeatsKey(L, i, config) =>
                 /\ i = c
                 /\ result = Err(DuplicateSectionKey(i - 1, NameOf(L[LastHeader(L, i)]),
                                                     KeyOf(L[i], config)))
           /\ ( /\ KeyValue(L[i]) /\ HasEq(L[i]) /\ LastHeader(L, i) # 0
                /\ ~RepeatsKey(L, i, config) ) =>
                 /\ result.tag # "Err" \/ i < c
                 /\ LET sec == ini.sections[NameOf(L[LastHeader(L, i)])]
                    IN  /\ KeyOf(L[i], config) \in DOMAIN sec.values
                        /\ sec.values[KeyOf(L[i], config)] = ValueOf(L[i], config)

\* the third header repeats the first, with another header between them
C4_Witness ==
    /\ result.tag = "Err"
    /\ result.val.kind = "DuplicateSection"
    /\ Cardinality(DOMAIN ini.sections) = 2
    /\ LET L == TextLines
       IN  \E h \in HeadersBefore(L, Consumed) :
              /\ NameOf(L[h]) # NameOf(L[Consumed])
              /\ \E g \in HeadersBefore(L, h) : NameOf(L[g]) = NameOf(L[Consumed])

(***************************************************************************)
(* C5: a line that is not skipped, does not start with `[` and comes       *)
(* before the first header fails with ExpectedSectionTitle and its line    *)
(* number, in both modes, also when it has no `=`; MissingEquals is only   *)
(* reported for a line that follows an accepted header.                    *)
(***************************************************************************)
C5_ExpectedSectionTitleFirst ==
    LET L == TextLines
        c == Consumed
    IN  /\ \A i \in 1..c :
              (KeyValue(L[i]) /\ HeadersBefore(L, i) = {}) =>
                 /\ i = c
                 /\ result = Err(ExpectedSectionTitle(i - 1))
        /\ (result.tag = "Err" /\ result.val.kind = "MissingEquals") =>
              /\ KeyValue(L[c]) /\ ~HasEq(L[c])
              /\ result.val.line_number = c - 1
              /\ LastHeader(L, c) # 0
              /\ Closed(L[LastHeader(L, c)])
              /\ NameOf(L[LastHeader(L, c)]) \in DOMAIN ini.sections

\* a line without `=` before any header, after a skipped line
C5_Witness ==
    /\ result.tag = "Err"
    /\ result.val.kind = "ExpectedSectionTitle"
    /\ Consumed >= 2
    /\ ~HasEq(TextLines[Consumed])

(***************************************************************************)
(* Mode equivalence (C6)                                                   *)
(***************************************************************************)
\* no key/value line has whitespace next to its first `=`
NoSpaceAtEq(L) ==
    \A i \in 1..Len(L) :
        (KeyValue(L[i]) /\ HasEq(L[i])) =>
            LET e == First(L[i], "=")
            IN  /\ e > 1 => L[i][e - 1] \notin WhiteSpace
                /\ e < Len(L[i]) => L[i][e + 1] \notin WhiteSpace

\* whitespace to insert on both sides of `=`
Padding == {<<" ">>, <<"\t", " ">>}

PadLine(l, w) ==
    IF KeyValue(l) /\ HasEq(l) THEN RawKey(l) \o w \o <<"=">> \o w \o RawValue(l) ELSE l

RECURSIVE Unlines(_)
Unlines(L) == IF L = <<>> THEN <<>> ELSE L[1] \o <<"\n">> \o Unlines(Tail(L))

\* the text with w inserted before and after the first `=` of its key/value lines
Padded(t, w) == Unlines([i \in 1..Len(SplitLines(t)) |-> PadLine(SplitLines(t)[i], w)])

OtherMode(m) == IF m = "Simple" THEN "SimpleTrimmed" ELSE "Simple"

\* C6, as claimed: with no whitespace next to any `=`, both modes give the
\* same result; and any text, padded with whitespace around the first `=` of
\* its key/value lines and parsed under SimpleTrimmed, gives the result of the
\* unpadded text under Simple.
C6_ModeEquivalenceAsClaimed ==
    result # Pending =>
        /\ NoSpaceAtEq(TextLines) => parse(string, OtherMode(config)) = result
        /\ config = "Simple" =>
              \A w \in Padding : parse(Padded(string, w), "SimpleTrimmed") = result

\* C6, amended: with no whitespace next to the first `=` of any key/value
\* line, both modes give the same result, and the text padded with whitespace
\* around those `=` and parsed under SimpleTrimmed gives the result of the
\* unpadded text under Simple.
C6_ModeEquivalence ==
    (result # Pending /\ NoSpaceAtEq(TextLines)) =>
        /\ parse(string, OtherMode(config)) = result
        /\ config = "Simple" =>
              \A w \in Padding : parse(Padded(string, w), "SimpleTrimmed") = result

\* a document with a key that has leading, and a value that has trailing, whitespace
C6_Witness ==
    /\ result.tag = "Ok"
    /\ config = "Simple"
    /\ NoSpaceAtEq(TextLines)
    /\ \E n \in DOMAIN result.val.sections :
          /\ <<" ", ";", "j">> \in DOMAIN result.val.sections[n].values
          /\ <<"k">> \in DOMAIN result.val.sections[n].values

(***************************************************************************)
(* C7: an accepted key/value line is split at its first `=` only.  In      *)
(* Simple the key is the text before it and the value the text after it;   *)
(* in SimpleTrimmed the key loses only trailing and the value only leading *)
(* whitespace.  So no stored key contains `=` or starts with `;`, `#` or   *)
(* `[`, and in SimpleTrimmed no key ends and no value starts with          *)
(* whitespace.                                                             *)
(***************************************************************************)
\* key k and value v are a split of line l at its first `=` under mode m
SplitsAs(l, k, v, m) ==
    \E e \in 1..Len(l) :
        /\ l[e] = "=" /\ \A j \in 1..(e - 1) : l[j] # "="
        /\ LET before == SubSeq(l, 1, e - 1)
               after == SubSeq(l, e + 1, Len(l))
           IN  IF m = "Simple" THEN k = before /\ v = after
               ELSE /\ \E a \in 0..Len(before) :
                          /\ k = SubSeq(before, 1, a)
                          /\ \A j \in (a + 1)..Len(before) : before[j] \in WhiteSpace
                    /\ k = <<>> \/ k[Len(k)] \notin WhiteSpace
                    /\ \E a \in 1..(Len(after) + 1) :
                          /\ v = SubSeq(after, a, Len(after))
                          /\ \A j \in 1..(a - 1) : after[j] \in WhiteSpace
                    /\ v = <<>> \/ v[1] \notin WhiteSpace

\* C7: every accepted key/value line is stored split at its first `=`, the key
\* and value trimmed only next to it and only in SimpleTrimmed
C7_SplitAtFirstEquals ==
    LET L == TextLines
        c == Consumed
    IN  /\ \A i \in 1..c :
              (KeyValue(L[i]) /\ (i < c \/ result.tag # "Err")) =>
                 /\ HasEq(L[i]) /\ LastHeader(L, i) # 0
                 /\ LET vals == ini.sections[NameOf(L[LastHeader(L, i)])].values
                    IN  /\ \E k \in DOMAIN vals : SplitsAs(L[i], k, vals[k], config)
                        /\ L[i] = <<" ", ";", "j", "=", "v", "=", "w", " ">> =>
                              /\ <<" ", ";", "j">> \in DOMAIN vals
                              /\ vals[<<" ", ";", "j">>] = <<"v", "=", "w", " ">>
                        /\ L[i] = <<"k", " ", "=", " ", "w">> =>
                              IF config = "Simple"
                              THEN /\ <<"k", " ">> \in DOMAIN vals
                                   /\ vals[<<"k", " ">>] = <<" ", "w">>
                              ELSE /\ <<"k">> \in DOMAIN vals
                                   /\ vals[<<"k">>] = <<"w">>
        /\ \A n \in DOMAIN ini.sections : \A k \in DOMAIN ini.sections[n].values :
              LET v == ini.sections[n].values[k]
              IN  /\ "=" \notin Range(k)
                  /\ k # <<>> => k[1] \notin {";", "#", "["}
                  /\ config = "SimpleTrimmed" =>
                        /\ k # <<>> => k[Len(k)] \notin WhiteSpace
                        /\ v # <<>> => v[1] \notin WhiteSpace

\* SimpleTrimmed has stored both " ;j=v=w " and "k = w"
C7_Witness ==
    /\ config = "SimpleTrimmed"
    /\ \E n \in DOMAIN ini.sections :
          /\ <<" ", ";", "j">> \in DOMAIN ini.sections[n].values
          /\ <<"k">> \in DOMAIN ini.sections[n].values
          /\ ini.sections[n].values[<<"k">>] = <<"w">>

(***************************************************************************)
(* Steps, as the claims read them: from a state where the parser has not   *)
(* returned and has taken c lines of the text's lines L, with lines left,  *)
(* the step takes line c + 1, which the parser numbers c.                  *)
(***************************************************************************)
LinesLeft(L, c) == result = Pending /\ c < Len(L)

\* whitespace, then a comment delimiter
SpaceThenComment(l) ==
    \E k \in 2..Len(l) : l[k] \in {";", "#"} /\ \A j \in 1..(k - 1) : l[j] \in WhiteSpace

(***************************************************************************)
(* C8: an empty line, a line of whitespace and a line starting with `;` or *)
(* `#` change neither the document being built nor the current section,    *)
(* wherever they occur; a text of such lines only, the empty text too,     *)
(* parses to the empty document; a line with whitespace before `;` or `#`  *)
(* is not skipped but handled as a key/value line.                         *)
(***************************************************************************)
C8_SkippedLinesChangeNothing ==
    [][ LET L == TextLines
            c == Consumed
            l == L[c + 1]
        IN  /\ (LinesLeft(L, c) /\ Skipped(l)) =>
                  /\ ini' = ini /\ section' = section /\ result' = Pending
                  /\ LinesUpTo(string', pos') = c + 1
            /\ (LinesLeft(L, c) /\ SpaceThenComment(l)) =>
                  /\ LinesUpTo(string', pos') = c + 1
                  /\ IF section = None
                     THEN result' = Err(ExpectedSectionTitle(c))
                     ELSE IF ~HasEq(l)
                     THEN result' = Err(MissingEquals(c))
                     ELSE IF KeyOf(l, config) \in DOMAIN ini.sections[section[1]].values
                     THEN result' = Err(DuplicateSectionKey(c, section[1], KeyOf(l, config)))
                     ELSE /\ result' = Pending
                          /\ KeyOf(l, config) \in DOMAIN ini'.sections[section[1]].values
            /\ (result' # Pending /\ \A i \in 1..Len(L) : Skipped(L[i])) =>
                  result' = Ok(IniDefault)
      ]_vars

\* a skipped line taken after a header and after " ;j=v=w " was stored as a key
C8_Witness ==
    /\ result = Pending
    /\ Consumed >= 3
    /\ Skipped(TextLines[Consumed])
    /\ section # None
    /\ <<" ", ";", "j">> \in DOMAIN ini.sections[section[1]].values

(***************************************************************************)
(* C9: a line starting with `[` is handled as a section header only, also  *)
(* when it contains `=`.  Without `]` it fails with BrokenSectionTitle at  *)
(* that line; else its name is the text between `[` and the first `]`,     *)
(* untrimmed, the rest of the line is ignored, and the new empty section   *)
(* is the current one for the key/value lines up to the next header.       *)
(***************************************************************************)
C9_HeaderLine ==
    [][ LET L == TextLines
            c == Consumed
            l == L[c + 1]
        IN  /\ (LinesLeft(L, c) /\ Header(l)) =>
                  /\ LinesUpTo(string', pos') = c + 1
                  /\ IF ~Closed(l)
                     THEN result' = Err(BrokenSectionTitle(c))
                     ELSE IF NameOf(l) \in DOMAIN ini.sections
                     THEN result' = Err(DuplicateSection(c, NameOf(l)))
                     ELSE /\ result' = Pending
                          /\ section' = Some(NameOf(l))
                          /\ DOMAIN ini'.sections = DOMAIN ini.sections \cup {NameOf(l)}
                          /\ ini'.sections[NameOf(l)] = [values |-> <<>>]
                          /\ \A n \in DOMAIN ini.sections : ini'.sections[n] = ini.sections[n]
            /\ (LinesLeft(L, c) /\ KeyValue(l)) =>
                  /\ section' = section
                  /\ DOMAIN ini'.sections = DOMAIN ini.sections
                  /\ ini' # ini =>
                        /\ section = Some(NameOf(L[LastHeader(L, c + 1)]))
                        /\ \A n \in DOMAIN ini.sections \ {section[1]} :
                              ini'.sections[n] = ini.sections[n]
                        /\ Pairs(ini'.sections[section[1]].values) =
                              Pairs(ini.sections[section[1]].values)
                              \cup {<<KeyOf(l, config), ValueOf(l, config)>>}
      ]_vars

\* the header "[ b]=]" was accepted after the header "[]", and a key followed it
C9_Witness ==
    /\ section = Some(<<" ", "b">>)
    /\ DOMAIN ini.sections = {<<>>, <<" ", "b">>}
    /\ ini.sections[<<" ", "b">>].values # <<>>

(***************************************************************************)
(* C10: after any prefix of lines taken without error the current section  *)
(* is unset, with no header accepted yet, or is the name of the most       *)
(* recently accepted header and a section of the document being built; so  *)
(* the lookup of the current section on insertion never fails.             *)
(***************************************************************************)
C10_CurrentSectionExists ==
    /\ result # Panic
    /\ section # None => section[1] \in DOMAIN ini.sections
    /\ result.tag \in {"Pending", "Ok"} =>
          LET L == TextLines
              h == LastHeader(L, Consumed + 1)
          IN  IF h = 0 THEN section = None /\ ini = IniDefault
              ELSE section = Some(NameOf(L[h]))

\* a key was inserted into the second section
C10_Witness ==
    /\ result.tag \in {"Pending", "Ok"}
    /\ section # None
    /\ Cardinality(DOMAIN ini.sections) = 2
    /\ ini.sections[section[1]].values # <<>>
    /\ \E n \in DOMAIN ini.sections : ini.sections[n].values = <<>>

=============================================================================
